---- MODULE Spec2Model ----
(***************************************************************************)
(* Serial link manager of uart_sms_forwarder (internal/service, type       *)
(* SerialService): the supervisor loop Start/runOnce, the reader loop      *)
(* listenSerialData, the refresh loop periodicCacheUpdate, the one-shot    *)
(* initial poll, the command sender sendJSONCommand with its callers       *)
(* SendSMS / ResetStack / RebootMcu, and GetStatus over the status cache.  *)
(*                                                                         *)
(* A port handle is identified by the number of the connection that opened *)
(* it (1, 2, ...); 0 stands for Go's nil handle.  Message ids (uuid) are   *)
(* modelled as fresh numbers 1, 2, ...; 0 stands for the empty string.     *)
(***************************************************************************)
EXTENDS Integers, Sequences, FiniteSets, TLC

\* ---------------------------------------------------------------- bounds
MaxConn == 2        \* successful connections explored
MaxSends == 2       \* SendSMS calls explored
SendConn == 1       \* successful connections explored while SendSMS is called
MaxLog == 4         \* connection attempts whose outcome is logged in delays
MaxPorts == 3       \* ports serial.GetPortsList returns
MaxSyms == 4        \* markers and blocks in the firmware's receive buffer plus chunk
MaxArrivals == 52   \* incoming SMS explored
MaxLost == 1        \* incoming SMS whose JSON encoding fails
MaxCmds == 3        \* send_sms commands the firmware accepts
EmitCmds == 1       \* send_sms commands accepted while every kind of frame is followed
MaxRings == 4       \* INCOMINGCALL events counted for one call
MaxTasks == 2       \* scheduled tasks
MaxInterval == 2    \* largest IntervalDays of a scheduled task
MaxDays == 3        \* daily checks explored
MaxSkew == 1        \* ticks between 08:00 sharp and a check's time.Now(), at most
MaxLag == 1         \* ticks between a check's time.Now() and a task's new LastRunAt

\* ------------------------------------------------------- program constants
BackoffMin == 5     \* seconds
BackoffMax == 60    \* seconds
BackoffFactor == 2
RecvLimit == 4096   \* main.lua: bytes uart_recv_buffer may hold after a callback
max_buffer_size == 50   \* main.lua: incoming SMS buffered for the UART

Ports == {"ttyUSB0", "ttyUSB1"}
NoPort == ""
Conns == 1..MaxConn

VARIABLES
    cfgPort,     \* s.config.Port ("" = auto-detect)
    connLimit,   \* bound: successful connections explored in this run
    sup,         \* position of the supervisor goroutine in Start / runOnce
    selected,    \* runOnce's local selectedPort
    attempt,     \* backoff.Backoff.attempt
    retryAfter,  \* Start's local retryAfter (seconds)
    port,        \* s.port: 0 = nil, h = the handle opened by connection h
    portName,    \* s.portName
    connected,   \* s.connected
    wg,          \* s.wg counter
    cache,       \* deviceCache entry: 0 = absent, h = snapshot stored during connection h
    nconn,       \* number of handles opened by connectSerial so far
    closes,      \* closes[h]: how often Close was called on handle h
    cancelled,   \* cancelled[h]: connCtx of connection h is cancelled
    reader,      \* reader[h]: position of connection h's listenSerialData goroutine
    refresh,     \* refresh[h]: position of connection h's periodicCacheUpdate goroutine
    poll,        \* poll[h]: position of connection h's `go s.requestCacheUpdate()`
    store,       \* stored text messages: id -> status
    nextId,      \* next fresh uuid
    wire,        \* send_sms commands written to a port
    cl,          \* the caller (HTTP handler / scheduler) and its call in progress
    calls,       \* history: what each finished SendSMS call returned
    crashed,     \* the process died of an unrecovered panic
    lost,        \* history: last connection whose disconnected state was published
    trail,       \* history: what preceded the supervisor's latest connection attempt
    rx,          \* listenSerialData's local line, while processReceivedData handles it
    delays,      \* history: the retry delays in order, 0 for a successful connection
    scan,        \* history: what the latest autoDetectPort call met and returned
    fw,          \* the firmware (main.lua): its buffers, tasks and what it has emitted
    sched        \* the scheduler (SchedulerService): its tasks and the daily checks

vars == <<cfgPort, connLimit, sup, selected, attempt, retryAfter, port, portName, connected, wg,
          cache, nconn, closes, cancelled, reader, refresh, poll, store, nextId, wire,
          cl, calls, crashed, lost, trail, rx, delays, scan, fw, sched>>

supVars == <<sup, selected, attempt, retryAfter>>
connVars == <<port, portName, connected>>
taskVars == <<wg, cancelled, reader, refresh, poll>>
msgVars == <<store, nextId, wire, calls>>
histVars == <<lost, trail>>
devVars == <<fw, sched>>
obsVars == <<rx, delays, scan, devVars>>

\* delays is kept only by the runs that start with an empty log.
NoLog == <<-1>>
NoLine == [kind |-> "none", type |-> "", rid |-> 0, success |-> FALSE]
NoScan == [ports |-> <<>>, i |-> 0, step |-> "idle", open |-> {}, probed |-> <<>>,
           port |-> NoPort]

\* The device and the scheduler as the link manager's runs leave them: not followed.
NoFirmware == [on |-> FALSE]
NoScheduler == [on |-> FALSE]

Idle == [op |-> "idle", pc |-> "idle", id |-> 0, err |-> "", pname |-> NoPort,
         conn |-> FALSE, lostAt |-> 0]

\* NewSerialService, and what runOnce and SendSMS start from.
NewSerialService(configs, limit, log) ==
    /\ cfgPort \in configs
    /\ connLimit = limit
    /\ sup = "start"
    /\ selected = NoPort
    /\ attempt = 0
    /\ retryAfter = 0
    /\ port = 0
    /\ portName = NoPort
    /\ connected = FALSE
    /\ wg = 0
    /\ cache = 0
    /\ nconn = 0
    /\ closes = [h \in Conns |-> 0]
    /\ cancelled = [h \in Conns |-> FALSE]
    /\ reader = [h \in Conns |-> "none"]
    /\ refresh = [h \in Conns |-> "none"]
    /\ poll = [h \in Conns |-> "none"]
    /\ store = <<>>
    /\ nextId = 1
    /\ wire = {}
    /\ cl = Idle
    /\ calls = <<>>
    /\ crashed = FALSE
    /\ lost = 0
    /\ trail = "init"
    /\ rx = NoLine
    /\ delays = log
    /\ scan = NoScan

Boot(configs, limit, log) ==
    /\ NewSerialService(configs, limit, log)
    /\ fw = NoFirmware
    /\ sched = NoScheduler

Start(configs, limit) == Boot(configs, limit, NoLog)

Init == Start({NoPort, "ttyUSB0"}, MaxConn)

\* --------------------------------------------------------------- backoff
AttemptCap == 4     \* attempts counted; from here on Min * Factor^attempt exceeds Max

RECURSIVE Pow(_, _)
Pow(b, n) == IF n <= 0 THEN 1 ELSE b * Pow(b, n - 1)

\* Variant: the jitter spans the whole range from Min to Max at every attempt.
ForAttemptFlat(a) == {5, 9, 19, 39, 59, 60}

\* Backoff.ForAttempt with Jitter: rand * (Min * Factor^attempt - Min) + Min with
\* rand in [0, 1), then clamped to [Min, Max]; in whole seconds.
ForAttempt(a) ==
    LET top == BackoffMin * Pow(BackoffFactor, a)
    IN  {d \in {5, 9, 19, 39, 59, 60} :
            \/ d = BackoffMin
            \/ d < top /\ d < BackoffMax
            \/ d = BackoffMax /\ top > BackoffMax}

\* ------------------------------------------------------------ supervisor
\* The log of delays has room for the outcome of one more attempt.
LogRoom == delays = NoLog \/ Len(delays) < MaxLog

Keep(log, d) == IF log = NoLog THEN log ELSE Append(log, d)

\* History: an attempt that follows a lost connection with no sleep in between.
Attempted == IF trail = "lost" THEN "immediate" ELSE "delayed"

\* runOnce: serial.GetPortsList fails or returns no port; runOnce returns the error.
ListPortsFails ==
    /\ ~crashed /\ sup = "start" /\ LogRoom
    /\ sup' = "failed"
    /\ trail' = Attempted
    /\ UNCHANGED <<cfgPort, connLimit, selected, attempt, retryAfter, connVars, taskVars, cache,
                   nconn, closes, msgVars, cl, crashed, lost, obsVars>>

\* runOnce with no configured port: autoDetectPort finds no device.
DetectFails ==
    /\ ~crashed /\ sup = "start" /\ cfgPort = NoPort /\ LogRoom
    /\ sup' = "failed"
    /\ trail' = Attempted
    /\ UNCHANGED <<cfgPort, connLimit, selected, attempt, retryAfter, connVars, taskVars, cache,
                   nconn, closes, msgVars, cl, crashed, lost, obsVars>>

\* runOnce: selectedPort is the configured port, else a port autoDetectPort accepts.
Candidates == IF cfgPort # NoPort THEN {cfgPort} ELSE Ports

\* runOnce -> connectSerial: serial.Open fails.
OpenFails ==
    /\ ~crashed /\ sup = "start" /\ LogRoom
    /\ selected' \in Candidates
    /\ sup' = "failed"
    /\ trail' = Attempted
    /\ UNCHANGED <<cfgPort, connLimit, attempt, retryAfter, connVars, taskVars, cache, nconn,
                   closes, msgVars, cl, crashed, lost, obsVars>>

\* runOnce -> connectSerial: s.port = the handle serial.Open returned.
ConnectSerial ==
    /\ ~crashed /\ sup = "start" /\ nconn < connLimit /\ LogRoom
    /\ selected' \in Candidates
    /\ nconn' = nconn + 1
    /\ port' = nconn + 1
    /\ sup' = "name"
    /\ trail' = Attempted
    /\ delays' = Keep(delays, 0)
    /\ UNCHANGED <<cfgPort, connLimit, attempt, retryAfter, portName, connected, taskVars, cache,
                   closes, msgVars, cl, crashed, lost, rx, scan, devVars>>

\* runOnce: s.setPortName(selectedPort)
SetPortName ==
    /\ ~crashed /\ sup = "name"
    /\ portName' = selected
    /\ sup' = "publish"
    /\ UNCHANGED <<cfgPort, connLimit, selected, attempt, retryAfter, port, connected, taskVars,
                   cache, nconn, closes, msgVars, cl, crashed, histVars, obsVars>>

\* Variant: runOnce does not call resetBackoff.
PublishConnectedKeepsBackoff ==
    /\ ~crashed /\ sup = "publish"
    /\ connected' = TRUE
    /\ attempt' = attempt
    /\ sup' = "spawnReader"
    /\ UNCHANGED <<cfgPort, connLimit, selected, retryAfter, port, portName, taskVars, cache,
                   nconn, closes, msgVars, cl, crashed, histVars, obsVars>>

\* runOnce: s.setConnected(true); resetBackoff(); connCtx := context.WithCancel(...)
PublishConnected ==
    /\ ~crashed /\ sup = "publish"
    /\ connected' = TRUE
    /\ attempt' = 0
    /\ sup' = "spawnReader"
    /\ UNCHANGED <<cfgPort, connLimit, selected, retryAfter, port, portName, taskVars, cache,
                   nconn, closes, msgVars, cl, crashed, histVars, obsVars>>

\* runOnce: s.wg.Add(1); go s.listenSerialData(connCtx, connCancel)
SpawnReader ==
    /\ ~crashed /\ sup = "spawnReader"
    /\ wg' = wg + 1
    /\ reader' = [reader EXCEPT ![nconn] = "loop"]
    /\ sup' = "spawnRefresh"
    /\ UNCHANGED <<cfgPort, connLimit, selected, attempt, retryAfter, connVars, cancelled, refresh,
                   poll, cache, nconn, closes, msgVars, cl, crashed, histVars, obsVars>>

\* runOnce: s.wg.Add(1); go s.periodicCacheUpdate(connCtx)
SpawnRefresh ==
    /\ ~crashed /\ sup = "spawnRefresh"
    /\ wg' = wg + 1
    /\ refresh' = [refresh EXCEPT ![nconn] = "select"]
    /\ sup' = "spawnPoll"
    /\ UNCHANGED <<cfgPort, connLimit, selected, attempt, retryAfter, connVars, cancelled, reader,
                   poll, cache, nconn, closes, msgVars, cl, crashed, histVars, obsVars>>

\* runOnce: go s.requestCacheUpdate()  (not added to s.wg, not given connCtx)
SpawnPoll ==
    /\ ~crashed /\ sup = "spawnPoll"
    /\ poll' = [poll EXCEPT ![nconn] = "check"]
    /\ sup' = "wait"
    /\ UNCHANGED <<cfgPort, connLimit, selected, attempt, retryAfter, connVars, wg, cancelled,
                   reader, refresh, cache, nconn, closes, msgVars, cl, crashed,
                   histVars, obsVars>>

\* Variant: Wait is released by the first of the two loops to exit.
WaitReturnsEarly == wg <= 1

\* runOnce: s.wg.Wait() returns when the counter is zero.
WaitReturns == wg = 0

\* runOnce after s.wg.Wait(): s.setConnected(false), the deferred connCancel(),
\* return nil; Start sees err == nil and loops to the next runOnce at once.
Joined ==
    /\ ~crashed /\ sup = "wait"
    /\ WaitReturns
    /\ connected' = FALSE
    /\ cancelled' = [cancelled EXCEPT ![nconn] = TRUE]
    /\ lost' = nconn
    /\ trail' = "lost"
    /\ sup' = "start"
    /\ UNCHANGED <<cfgPort, connLimit, selected, attempt, retryAfter, port, portName, wg, reader,
                   refresh, poll, cache, nconn, closes, msgVars, cl, crashed, obsVars>>

\* Start, err != nil: s.setConnected(false); retryAfter := b.Duration()
FailDisconnect ==
    /\ ~crashed /\ sup = "failed"
    /\ connected' = FALSE
    /\ retryAfter' \in ForAttempt(attempt)
    /\ attempt' = IF attempt < AttemptCap THEN attempt + 1 ELSE attempt
    /\ sup' = "evict"
    /\ delays' = Keep(delays, retryAfter')
    /\ UNCHANGED <<cfgPort, connLimit, selected, port, portName, taskVars, cache, nconn, closes,
                   msgVars, cl, crashed, histVars, rx, scan, devVars>>

\* Start, err != nil: s.deviceCache.Delete(CacheKeyDeviceStatus)
FailEvict ==
    /\ ~crashed /\ sup = "evict"
    /\ cache' = 0
    /\ sup' = "sleep"
    /\ UNCHANGED <<cfgPort, connLimit, selected, attempt, retryAfter, connVars, taskVars, nconn,
                   closes, msgVars, cl, crashed, histVars, obsVars>>

\* Start, err != nil: time.Sleep(retryAfter), then the next iteration.
Sleep ==
    /\ ~crashed /\ sup = "sleep"
    /\ retryAfter' = 0
    /\ selected' = NoPort
    /\ trail' = "slept"
    /\ sup' = "start"
    /\ UNCHANGED <<cfgPort, connLimit, attempt, connVars, taskVars, cache, nconn, closes, msgVars,
                   cl, crashed, lost, obsVars>>

Supervisor ==
    \/ ListPortsFails \/ DetectFails \/ OpenFails \/ ConnectSerial \/ SetPortName
    \/ PublishConnected \/ SpawnReader \/ SpawnRefresh \/ SpawnPoll \/ Joined
    \/ FailDisconnect \/ FailEvict \/ Sleep

\* ----------------------------------------------------- message handlers
\* status_response handler: the parsed snapshot replaces the cache entry.
HandleStatusResponse(h) == cache' = h

\* Variant: the update inserts the record when there is none with that id.
UpdateStatusByIdUpserts(id, status, ok) ==
    store' = IF ok /\ id # 0 THEN (id :> status) @@ store ELSE store

\* Variant: the update is applied to every stored record.
UpdateStatusByIdAll(id, status, ok) ==
    store' = IF ok THEN [i \in DOMAIN store |-> status] ELSE store

\* UpdateStatusById: the storage collaborator updates the record, or fails.
UpdateStatusById(id, status, ok) ==
    store' = IF ok /\ id \in DOMAIN store THEN [store EXCEPT ![id] = status] ELSE store

\* sms_send_result handler: sent or failed, by the reported outcome.
HandleSendResult(rid, success, ok) ==
    UpdateStatusById(rid, IF success THEN "sent" ELSE "failed", ok)

\* ---------------------------------------------------------- reader loop
\* listenSerialData, one received line: processReceivedData routes a status_response.
ReaderStatusLine(h) ==
    /\ ~crashed /\ reader[h] = "loop" /\ ~cancelled[h] /\ closes[h] = 0
    /\ HandleStatusResponse(h)
    /\ UNCHANGED <<cfgPort, connLimit, supVars, connVars, taskVars, nconn, closes, msgVars, cl, crashed, histVars, obsVars>>

\* listenSerialData, one received line: an sms_send_result for a command on the wire.
ReaderResultLine(h) ==
    /\ ~crashed /\ reader[h] = "loop" /\ ~cancelled[h] /\ closes[h] = 0
    /\ \E w \in wire, success \in BOOLEAN, ok \in BOOLEAN :
          HandleSendResult(w.rid, success, ok)
    /\ UNCHANGED <<cfgPort, connLimit, supVars, connVars, taskVars, cache, nconn, closes, nextId,
                   wire, calls, cl, crashed, histVars, obsVars>>

\* listenSerialData: connCtx.Done(), io.EOF or another read error ends the loop;
\* so does a panic below processReceivedData.  The deferred function runs next.
ReaderEnds(h) ==
    /\ ~crashed /\ reader[h] = "loop"
    /\ reader' = [reader EXCEPT ![h] = "close"]
    /\ UNCHANGED <<cfgPort, connLimit, supVars, connVars, wg, cancelled, refresh, poll, cache,
                   nconn, closes, msgVars, cl, crashed, histVars, obsVars>>

\* Variant: the deferred function drops the handle without closing it.
CloseOnExitSkips(h) ==
    /\ closes' = closes
    /\ reader' = [reader EXCEPT ![h] = IF port # 0 THEN "nil" ELSE "cancel"]

\* The deferred function of listenSerialData: if s.port != nil { s.port.Close() ...
CloseOnExit(h) ==
    /\ closes' = IF port # 0 THEN [closes EXCEPT ![port] = @ + 1] ELSE closes
    /\ reader' = [reader EXCEPT ![h] = IF port # 0 THEN "nil" ELSE "cancel"]

ReaderClose(h) ==
    /\ ~crashed /\ reader[h] = "close"
    /\ CloseOnExit(h)
    /\ UNCHANGED <<cfgPort, connLimit, supVars, connVars, wg, cancelled, refresh, poll, cache,
                   nconn, msgVars, cl, crashed, histVars, obsVars>>

\* ... s.port = nil }
ReaderNil(h) ==
    /\ ~crashed /\ reader[h] = "nil"
    /\ port' = 0
    /\ reader' = [reader EXCEPT ![h] = "cancel"]
    /\ UNCHANGED <<cfgPort, connLimit, supVars, portName, connected, wg, cancelled, refresh, poll,
                   cache, nconn, closes, msgVars, cl, crashed, histVars, obsVars>>

\* The deferred function of listenSerialData: connCancel()
ReaderCancel(h) ==
    /\ ~crashed /\ reader[h] = "cancel"
    /\ cancelled' = [cancelled EXCEPT ![h] = TRUE]
    /\ reader' = [reader EXCEPT ![h] = "done"]
    /\ UNCHANGED <<cfgPort, connLimit, supVars, connVars, wg, refresh, poll, cache, nconn, closes,
                   msgVars, cl, crashed, histVars, obsVars>>

\* defer s.wg.Done() of listenSerialData
ReaderDone(h) ==
    /\ ~crashed /\ reader[h] = "done"
    /\ wg' = wg - 1
    /\ reader' = [reader EXCEPT ![h] = "none"]
    /\ UNCHANGED <<cfgPort, connLimit, supVars, connVars, cancelled, refresh, poll, cache, nconn,
                   closes, msgVars, cl, crashed, histVars, obsVars>>

\* ------------------------------------------- reader loop, line by line
\* request_id values of a result: none at all, or one this gateway has no record of.
NoId == 0
StaleId == -1

Line(kind, type, rid, success) ==
    [kind |-> kind, type |-> type, rid |-> rid, success |-> success]

\* The lines a device can send, after strings.TrimSpace: text outside the
\* SMS_START:/:SMS_END envelope, a frame whose JSON does not parse, a frame whose
\* JSON has no type, and frames of the types the model follows ("other" stands for
\* the types that touch neither the status cache nor stored records).
Lines ==
    {Line(k, "", NoId, FALSE) : k \in {"unframed", "malformed", "untyped"}}
    \cup {Line("frame", t, NoId, FALSE) : t \in {"status_response", "other"}}
    \cup {Line("frame", "sms_send_result", r, ok) :
              r \in {w.rid : w \in wire} \cup {NoId, StaleId}, ok \in BOOLEAN}

\* parseSMSFrame: the message, or which of the three errors.
ParseSMSFrame(line) ==
    CASE line.kind = "unframed"  -> [err |-> "errNotSMSFrame", msg |-> NoLine]
      [] line.kind = "malformed" -> [err |-> "parse", msg |-> NoLine]
      [] line.kind = "untyped"   -> [err |-> "errMissingType", msg |-> NoLine]
      [] OTHER                   -> [err |-> "", msg |-> line]

\* listenSerialData: line, err := reader.ReadString('\n') with err == nil.
ReaderReads(h) ==
    /\ ~crashed /\ reader[h] = "loop" /\ ~cancelled[h] /\ closes[h] = 0
    /\ rx' \in Lines
    /\ reader' = [reader EXCEPT ![h] = "process"]
    /\ UNCHANGED <<cfgPort, connLimit, supVars, connVars, wg, cancelled, refresh, poll, cache,
                   nconn, closes, msgVars, cl, crashed, histVars, delays, scan, devVars>>

\* Variant: a frame without type is handed to the router all the same.
AfterParseRoutesUntyped(p) == IF p.err \in {"", "errMissingType"} THEN "route" ELSE "loop"

\* Variant: a frame that does not parse ends the reader loop.
AfterParseFatal(p) ==
    IF p.err = "" THEN "route" ELSE IF p.err = "parse" THEN "close" ELSE "loop"

\* processReceivedData: every error of parseSMSFrame returns (some are logged);
\* only a parsed message goes on to s.routeMessage(msg).
AfterParse(p) == IF p.err = "" THEN "route" ELSE "loop"

ProcessReceivedData(h) ==
    /\ ~crashed /\ reader[h] = "process"
    /\ reader' = [reader EXCEPT ![h] = AfterParse(ParseSMSFrame(rx))]
    /\ rx' = IF reader'[h] = "route" THEN rx ELSE NoLine
    /\ UNCHANGED <<cfgPort, connLimit, supVars, connVars, wg, cancelled, refresh, poll, cache,
                   nconn, closes, msgVars, cl, crashed, histVars, delays, scan, devVars>>

\* routeMessage: dispatch on the type to the handler; back to the read loop.
RouteMessage(h) ==
    /\ ~crashed /\ reader[h] = "route"
    /\ CASE rx.type = "status_response" -> HandleStatusResponse(h) /\ store' = store
         [] rx.type = "sms_send_result" ->
               /\ \E ok \in BOOLEAN : HandleSendResult(rx.rid, rx.success, ok)
               /\ cache' = cache
         [] OTHER -> UNCHANGED <<cache, store>>
    /\ reader' = [reader EXCEPT ![h] = "loop"]
    /\ rx' = NoLine
    /\ UNCHANGED <<cfgPort, connLimit, supVars, connVars, wg, cancelled, refresh, poll,
                   nconn, closes, nextId, wire, calls, cl, crashed, histVars, delays, scan, devVars>>

\* A panic below routeMessage unwinds to the deferred function of listenSerialData.
RoutePanics(h) ==
    /\ ~crashed /\ reader[h] = "route"
    /\ reader' = [reader EXCEPT ![h] = "close"]
    /\ rx' = NoLine
    /\ UNCHANGED <<cfgPort, connLimit, supVars, connVars, wg, cancelled, refresh, poll, cache,
                   nconn, closes, msgVars, cl, crashed, histVars, delays, scan, devVars>>

ReaderLine(h) ==
    ReaderReads(h) \/ ProcessReceivedData(h) \/ RouteMessage(h) \/ RoutePanics(h)

Reader(h) ==
    \/ ReaderStatusLine(h) \/ ReaderEnds(h) \/ ReaderClose(h) \/ ReaderNil(h)
    \/ ReaderCancel(h) \/ ReaderDone(h)

\* -------------------------------------------------------- command sender
\* sendJSONCommand: if s.port == nil { return "not connected" }
NotConnected == port = 0

\* sendJSONCommand: s.port.Write(message).  A nil handle panics (nil interface
\* method call), a closed handle fails, an open handle accepts the bytes or fails.
WriteResults ==
    IF port = 0 THEN {"panic"}
    ELSE IF closes[port] > 0 THEN {"error"}
    ELSE {"ok", "error"}

\* --------------------------------------------------------- refresh loop
\* periodicCacheUpdate: case <-connCtx.Done(): return, with the deferred s.wg.Done()
RefreshStops(h) ==
    /\ ~crashed /\ refresh[h] = "select" /\ cancelled[h]
    /\ wg' = wg - 1
    /\ refresh' = [refresh EXCEPT ![h] = "none"]
    /\ UNCHANGED <<cfgPort, connLimit, supVars, connVars, cancelled, reader, poll, cache, nconn,
                   closes, msgVars, cl, crashed, histVars, obsVars>>

\* periodicCacheUpdate: case <-ticker.C: s.requestCacheUpdate()
RefreshTick(h) ==
    /\ ~crashed /\ refresh[h] = "select"
    /\ refresh' = [refresh EXCEPT ![h] = "check"]
    /\ UNCHANGED <<cfgPort, connLimit, supVars, connVars, wg, cancelled, reader, poll, cache,
                   nconn, closes, msgVars, cl, crashed, histVars, obsVars>>

\* requestCacheUpdate -> sendJSONCommand: the nil check; an error is only logged.
RefreshCheck(h) ==
    /\ ~crashed /\ refresh[h] = "check"
    /\ refresh' = [refresh EXCEPT ![h] = IF NotConnected THEN "select" ELSE "write"]
    /\ UNCHANGED <<cfgPort, connLimit, supVars, connVars, wg, cancelled, reader, poll, cache,
                   nconn, closes, msgVars, cl, crashed, histVars, obsVars>>

\* What the deferred recover of periodicCacheUpdate does with a panic: it logs;
\* the deferred s.wg.Done() follows.
RefreshRecover(h) ==
    /\ wg' = wg - 1
    /\ refresh' = [refresh EXCEPT ![h] = "panicked"]
    /\ UNCHANGED <<connVars, cancelled, closes>>

\* requestCacheUpdate -> sendJSONCommand: the write; its error is only logged.
RefreshWrite(h) ==
    /\ ~crashed /\ refresh[h] = "write"
    /\ \E r \in WriteResults :
          IF r = "panic"
          THEN RefreshRecover(h)
          ELSE /\ refresh' = [refresh EXCEPT ![h] = "select"]
               /\ UNCHANGED <<connVars, wg, cancelled, closes>>
    /\ UNCHANGED <<cfgPort, connLimit, supVars, reader, poll, cache, nconn, msgVars, cl,
                   crashed, histVars, obsVars>>

\* An unexpected panic inside requestCacheUpdate (logger, serial driver).
RefreshPanics(h) ==
    /\ ~crashed /\ refresh[h] = "check"
    /\ RefreshRecover(h)
    /\ UNCHANGED <<cfgPort, connLimit, supVars, reader, poll, cache, nconn, msgVars, cl,
                   crashed, histVars, obsVars>>

Refresh(h) ==
    \/ RefreshStops(h) \/ RefreshTick(h) \/ RefreshCheck(h) \/ RefreshWrite(h)
    \/ RefreshPanics(h)

\* ---------------------------------------------------------- initial poll
\* go s.requestCacheUpdate() -> sendJSONCommand: the nil check.
PollCheck(h) ==
    /\ ~crashed /\ poll[h] = "check"
    /\ poll' = [poll EXCEPT ![h] = IF NotConnected THEN "none" ELSE "write"]
    /\ UNCHANGED <<cfgPort, connLimit, supVars, connVars, wg, cancelled, reader, refresh, cache,
                   nconn, closes, msgVars, cl, crashed, histVars, obsVars>>

\* go s.requestCacheUpdate() -> sendJSONCommand: the write.  This goroutine has no
\* recover: a panic ends the process.
PollWrite(h) ==
    /\ ~crashed /\ poll[h] = "write"
    /\ poll' = [poll EXCEPT ![h] = "none"]
    /\ crashed' = (port = 0)
    /\ UNCHANGED <<cfgPort, connLimit, supVars, connVars, wg, cancelled, reader, refresh, cache,
                   nconn, closes, msgVars, cl, histVars, obsVars>>

Poll(h) == PollCheck(h) \/ PollWrite(h)

\* --------------------------------------------------------------- callers
\* What a SendSMS call returned: the tracking id (0 = "") and the error ("" = nil);
\* rec is the id the call generated, upd whether marking the record failed worked.
Outcome(rec, id, err, upd) == [rec |-> rec, id |-> id, err |-> err, upd |-> upd]

\* Variant: SendSMS goes on to the write with the record not yet saved.
SaveRecordLate(id, ok) ==
    /\ store' = store
    /\ cl' = [Idle EXCEPT !.op = "send", !.pc = "check", !.id = id]
    /\ calls' = calls

\* Variant: SendSMS logs the storage error and goes on to send the command.
SaveRecordIgnoresError(id, ok) ==
    /\ store' = IF ok THEN (id :> "sending") @@ store ELSE store
    /\ cl' = [Idle EXCEPT !.op = "send", !.pc = "check", !.id = id]
    /\ calls' = calls

\* SendSMS: msgID := uuid.NewString(); textMsgService.Save of the record with
\* status sending; a storage error is returned to the caller.
SaveRecord(id, ok) ==
    /\ store' = IF ok THEN (id :> "sending") @@ store ELSE store
    /\ cl' = IF ok THEN [Idle EXCEPT !.op = "send", !.pc = "check", !.id = id] ELSE Idle
    /\ calls' = IF ok THEN calls ELSE Append(calls, Outcome(id, 0, "storage", FALSE))

CallSendSMS ==
    /\ ~crashed /\ cl.pc = "idle" /\ nextId <= MaxSends
    /\ nextId' = nextId + 1
    /\ \E ok \in BOOLEAN : SaveRecord(nextId, ok)
    /\ UNCHANGED <<cfgPort, connLimit, supVars, connVars, taskVars, cache, nconn, closes,
                   wire, crashed, histVars, obsVars>>

\* ResetStack / RebootMcu: one fixed command.
CallControl ==
    /\ ~crashed /\ cl.pc = "idle"
    /\ \E op \in {"reset", "reboot"} : cl' = [Idle EXCEPT !.op = op, !.pc = "check"]
    /\ UNCHANGED <<cfgPort, connLimit, supVars, connVars, taskVars, cache, nconn, closes,
                   msgVars, crashed, histVars, obsVars>>

\* Variant: sendJSONCommand without the nil check.
CheckPortMissing(c) == [c EXCEPT !.pc = "write"]

\* sendJSONCommand called with no handle returns the error at once; SendSMS goes
\* on to mark its record, ResetStack / RebootMcu return the error as it is.
CheckPort(c) ==
    IF NotConnected
    THEN [c EXCEPT !.pc = IF c.op = "send" THEN "mark" ELSE "return",
                   !.err = "not_connected"]
    ELSE [c EXCEPT !.pc = "write"]

CallerCheck ==
    /\ ~crashed /\ cl.pc = "check"
    /\ cl' = CheckPort(cl)
    /\ UNCHANGED <<cfgPort, connLimit, supVars, connVars, taskVars, cache, nconn, closes,
                   msgVars, crashed, histVars, obsVars>>

\* Variant: SendSMS returns an id other than the one it saved and sent.
SendSucceedsOtherId(c) ==
    /\ wire' = wire \cup {[rid |-> c.id,
                           st |-> IF c.id \in DOMAIN store THEN store[c.id] ELSE "absent"]}
    /\ calls' = Append(calls, Outcome(c.id, 1, "", FALSE))
    /\ cl' = Idle

\* SendSMS after a successful write: return msgID, nil.
SendSucceeds(c) ==
    /\ wire' = wire \cup {[rid |-> c.id,
                           st |-> IF c.id \in DOMAIN store THEN store[c.id] ELSE "absent"]}
    /\ calls' = Append(calls, Outcome(c.id, c.id, "", FALSE))
    /\ cl' = Idle

\* sendJSONCommand: the write, and what the caller does with its outcome.  A panic
\* (nil handle) unwinds the caller's goroutine: the call returns nothing.
CallerWrite ==
    /\ ~crashed /\ cl.pc = "write"
    /\ \E r \in WriteResults :
          CASE r = "ok" /\ cl.op = "send" -> SendSucceeds(cl)
            [] r = "ok" /\ cl.op # "send" ->
                  /\ cl' = [cl EXCEPT !.pc = "return"]
                  /\ UNCHANGED <<wire, calls>>
            [] r = "error" ->
                  /\ cl' = [cl EXCEPT !.pc = IF cl.op = "send" THEN "mark" ELSE "return",
                                      !.err = "write"]
                  /\ UNCHANGED <<wire, calls>>
            [] r = "panic" ->
                  /\ cl' = Idle
                  /\ calls' = IF cl.op = "send"
                              THEN Append(calls, Outcome(cl.id, 0, "panic", FALSE))
                              ELSE calls
                  /\ wire' = wire
    /\ UNCHANGED <<cfgPort, connLimit, supVars, connVars, taskVars, cache, nconn, closes,
                   store, nextId, crashed, histVars, obsVars>>

\* ResetStack / RebootMcu: return err (nil after a successful write).
ControlReturns ==
    /\ ~crashed /\ cl.pc = "return"
    /\ cl' = Idle
    /\ UNCHANGED <<cfgPort, connLimit, supVars, connVars, taskVars, cache, nconn, closes,
                   msgVars, crashed, histVars, obsVars>>

\* Variant: SendSMS returns the error and leaves the record as it is.
MarkFailedForgets(c, ok) ==
    /\ store' = store
    /\ calls' = Append(calls, Outcome(c.id, 0, c.err, ok))
    /\ cl' = Idle

\* SendSMS after a failed sendJSONCommand:
\* _ = textMsgService.UpdateStatusById(ctx, msgID, failed); return "", err
MarkFailed(c, ok) ==
    /\ UpdateStatusById(c.id, "failed", ok)
    /\ calls' = Append(calls, Outcome(c.id, 0, c.err, ok))
    /\ cl' = Idle

SendFails ==
    /\ ~crashed /\ cl.pc = "mark"
    /\ \E ok \in BOOLEAN : MarkFailed(cl, ok)
    /\ UNCHANGED <<cfgPort, connLimit, supVars, connVars, taskVars, cache, nconn, closes,
                   nextId, wire, crashed, histVars, obsVars>>

\* GetStatus: portName, connected := s.getConnectionInfo()
CallGetStatus ==
    /\ ~crashed /\ cl.pc = "idle"
    /\ cl' = [Idle EXCEPT !.op = "status", !.pc = "cache", !.pname = portName,
                          !.conn = connected, !.lostAt = lost]
    /\ UNCHANGED <<cfgPort, connLimit, supVars, connVars, taskVars, cache, nconn, closes, msgVars,
                   crashed, histVars, obsVars>>

\* A zero StatusData; dev stands for the device-reported fields (0 = all zero).
ZeroStatus == [dev |-> 0, pname |-> NoPort, conn |-> FALSE]

\* deviceCache.Get: the entry a status_response of connection `cache` left, if any.
CacheGet == [ok |-> cache # 0, status |-> [ZeroStatus EXCEPT !.dev = cache]]

\* Variant: GetStatus returns the cached entry as the device reported it.
SnapshotAsCached(c) ==
    IF CacheGet.ok THEN CacheGet.status
    ELSE [ZeroStatus EXCEPT !.pname = c.pname, !.conn = c.conn]

\* GetStatus: the cached snapshot (or a zero one) with the connection fields laid over.
Snapshot(c) ==
    IF CacheGet.ok
    THEN [CacheGet.status EXCEPT !.pname = c.pname, !.conn = c.conn]
    ELSE [ZeroStatus EXCEPT !.pname = c.pname, !.conn = c.conn]

\* What GetStatus hands back: (status, nil) on both paths.
GetStatus(c) == [status |-> Snapshot(c), err |-> ""]

\* GetStatus returns Snapshot(cl), nil.
GetStatusReturns ==
    /\ ~crashed /\ cl.pc = "cache"
    /\ cl' = Idle
    /\ UNCHANGED <<cfgPort, connLimit, supVars, connVars, taskVars, cache, nconn, closes,
                   msgVars, crashed, histVars, obsVars>>

\* The cache entry reaches its TTL (CacheTTL) and is dropped.
CacheExpires ==
    /\ ~crashed /\ cache # 0
    /\ cache' = 0
    /\ UNCHANGED <<cfgPort, connLimit, supVars, connVars, taskVars, nconn, closes, msgVars, cl,
                   crashed, histVars, obsVars>>

\* The supervisor with the goroutines of its connections.
Link == Supervisor \/ \E h \in Conns : Reader(h) \/ Refresh(h) \/ Poll(h)

\* Callers of GetStatus while the link comes and goes.
Next == Link \/ CallGetStatus \/ GetStatusReturns \/ CacheExpires

Spec == Init /\ [][Next]_vars

\* The link while the device is present: ports list, the configured port opens.
LinkUp ==
    \/ ConnectSerial \/ SetPortName \/ PublishConnected \/ SpawnReader \/ SpawnRefresh
    \/ SpawnPoll \/ Joined
    \/ \E h \in Conns :
          \/ ReaderEnds(h) \/ ReaderClose(h) \/ ReaderNil(h) \/ ReaderCancel(h)
          \/ ReaderDone(h) \/ Refresh(h) \/ Poll(h)

\* Callers of ResetStack and RebootMcu while the link comes and goes.
InitCtl == Start({"ttyUSB0"}, MaxConn)

NextCtl == LinkUp \/ CallControl \/ CallerCheck \/ CallerWrite \/ ControlReturns

SpecCtl == InitCtl /\ [][NextCtl]_vars

\* Callers of SendSMS while the link comes and goes; the device answers the
\* send_sms commands it received.
InitSend == Start({"ttyUSB0"}, SendConn)

NextSend ==
    \/ LinkUp
    \/ \E h \in Conns : ReaderResultLine(h)
    \/ CallSendSMS \/ CallerCheck \/ CallerWrite \/ SendFails

SpecSend == InitSend /\ [][NextSend]_vars

\* The end of a connection: the reader leaves its loop and cleans up, the refresh
\* loop sees the cancelled context.
Teardown(h) ==
    \/ ReaderEnds(h) \/ ReaderClose(h) \/ ReaderNil(h) \/ ReaderCancel(h)
    \/ ReaderDone(h) \/ RefreshStops(h)

\* The reader followed line by line while SendSMS is called and connections come
\* and go; of the refresh loop only its exit, the poll commands being no part of
\* what the reader or the stored records see.
InitRead == Start({"ttyUSB0"}, MaxConn)

NextRead ==
    \/ ConnectSerial \/ SetPortName \/ PublishConnected \/ SpawnReader \/ SpawnRefresh
    \/ SpawnPoll \/ Joined
    \/ \E h \in Conns : Teardown(h) \/ ReaderLine(h)
    \/ CallSendSMS \/ CallerCheck \/ CallerWrite \/ SendFails

SpecRead == InitRead /\ [][NextRead]_vars

\* The supervisor alone, ports failing and connections ending, with its delays logged.
InitRetry == Boot({NoPort, "ttyUSB0"}, MaxConn, <<>>)

NextRetry == Supervisor \/ \E h \in Conns : Teardown(h)

SpecRetry == InitRetry /\ [][NextRetry]_vars

\* The supervisor and the goroutines it starts, each scheduled again and again: the
\* Go scheduler runs every runnable goroutine, time.Sleep and wg.Wait return once
\* their condition holds.  Whether and when a read ends (ReaderEnds) is up to the
\* device and carries no fairness.
InitLive == Start({NoPort, "ttyUSB0"}, MaxConn)

NextLive == Supervisor \/ \E h \in Conns : Teardown(h) \/ Poll(h)

SpecLive ==
    /\ InitLive /\ [][NextLive]_vars
    /\ WF_vars(Supervisor)
    /\ \A h \in Conns :
          /\ WF_vars(ReaderClose(h) \/ ReaderNil(h) \/ ReaderCancel(h) \/ ReaderDone(h))
          /\ WF_vars(RefreshStops(h))
          /\ WF_vars(Poll(h))

\* ------------------------------------------------------- autoDetectPort
\* Names serial.GetPortsList can return, in the order of the enumeration.
PortNames == <<"ttyUSB0", "ttyUSB1", "ttyUSB2", "ttyUSB3">>

PortLists == {SubSeq(PortNames, 1, n) : n \in 1..MaxPorts}

\* What port.Read gives back for the probe: an error (with or without bytes),
\* nothing within the read timeout, bytes without the envelope markers, or a
\* framed answer.
Answer(err, n, data) == [err |-> err, n |-> n, data |-> data]

NoAnswer == Answer(FALSE, 0, "")

Answers ==
    {Answer(TRUE, 0, ""), Answer(TRUE, 1, "framed"), NoAnswer, Answer(FALSE, 1, "noise"),
     Answer(FALSE, 1, "framed")}

\* isValidResponse: the response contains the downstream envelope markers.
IsValidResponse(data) == data = "framed"

\* Variant: any answer at all is taken for the device.
AcceptsAnyAnswer(a) == ~a.err /\ a.n > 0

\* autoDetectPort: err == nil && n > 0 && isValidResponse(response)
Accepts(a) == ~a.err /\ a.n > 0 /\ IsValidResponse(a.data)

\* History: what the probe of one candidate met.
Probed(name, opened, wrote, answer) ==
    [name |-> name, opened |-> opened, wrote |-> wrote, answer |-> answer]

Candidate == scan.ports[scan.i]

\* Variant: a skipped candidate is left open.
SkipLeavesOpen(opened, wrote, answer) ==
    [scan EXCEPT !.i = @ + 1, !.step = "open",
                 !.probed = Append(@, Probed(Candidate, opened, wrote, answer))]

\* autoDetectPort: `continue`, the next port of the range loop; port.Close() has
\* been called on a candidate that was opened.
Skip(opened, wrote, answer) ==
    [scan EXCEPT !.i = @ + 1, !.step = "open", !.open = @ \ {Candidate},
                 !.probed = Append(@, Probed(Candidate, opened, wrote, answer))]

\* runOnce with no configured port: serial.GetPortsList, then autoDetectPort(ports).
ScanBegin ==
    /\ ~crashed /\ sup = "start" /\ cfgPort = NoPort /\ LogRoom
    /\ \E ps \in PortLists :
          scan' = [ports |-> ps, i |-> 1, step |-> "open", open |-> {}, probed |-> <<>>,
                   port |-> NoPort]
    /\ sup' = "scan"
    /\ trail' = Attempted
    /\ UNCHANGED <<cfgPort, connLimit, selected, attempt, retryAfter, connVars, taskVars, cache,
                   nconn, closes, msgVars, cl, crashed, lost, rx, delays, devVars>>

\* autoDetectPort: serial.Open(portName, mode); on an error `continue`.
ProbeOpen ==
    /\ ~crashed /\ sup = "scan" /\ scan.step = "open" /\ scan.i <= Len(scan.ports)
    /\ \E ok \in BOOLEAN :
          scan' = IF ok THEN [scan EXCEPT !.step = "write", !.open = @ \cup {Candidate}]
                  ELSE Skip(FALSE, FALSE, NoAnswer)
    /\ UNCHANGED <<cfgPort, connLimit, supVars, connVars, taskVars, cache, nconn, closes,
                   msgVars, cl, crashed, histVars, rx, delays, devVars>>

\* autoDetectPort: port.Write(probe); on an error port.Close() and `continue`.
ProbeWrite ==
    /\ ~crashed /\ sup = "scan" /\ scan.step = "write"
    /\ \E ok \in BOOLEAN :
          scan' = IF ok THEN [scan EXCEPT !.step = "read"]
                  ELSE Skip(TRUE, FALSE, NoAnswer)
    /\ UNCHANGED <<cfgPort, connLimit, supVars, connVars, taskVars, cache, nconn, closes,
                   msgVars, cl, crashed, histVars, rx, delays, devVars>>

\* autoDetectPort: time.Sleep, port.Read(buffer), port.Close(); an accepted answer
\* returns portName to runOnce, anything else goes on with the next port.
ProbeRead ==
    /\ ~crashed /\ sup = "scan" /\ scan.step = "read"
    /\ \E a \in Answers :
          IF Accepts(a)
          THEN /\ scan' = [scan EXCEPT !.step = "returned", !.open = @ \ {Candidate},
                                       !.port = Candidate,
                                       !.probed = Append(@, Probed(Candidate, TRUE, TRUE, a))]
               /\ selected' = Candidate
               /\ sup' = "detected"
          ELSE /\ scan' = Skip(TRUE, TRUE, a)
               /\ UNCHANGED <<selected, sup>>
    /\ UNCHANGED <<cfgPort, connLimit, attempt, retryAfter, connVars, taskVars, cache, nconn,
                   closes, msgVars, cl, crashed, histVars, rx, delays, devVars>>

\* autoDetectPort: the range loop is over, return "", error; runOnce returns it.
ScanExhausted ==
    /\ ~crashed /\ sup = "scan" /\ scan.step = "open" /\ scan.i > Len(scan.ports)
    /\ scan' = [scan EXCEPT !.step = "returned"]
    /\ sup' = "failed"
    /\ UNCHANGED <<cfgPort, connLimit, selected, attempt, retryAfter, connVars, taskVars, cache,
                   nconn, closes, msgVars, cl, crashed, histVars, rx, delays, devVars>>

\* runOnce -> connectSerial(selectedPort) on the detected port: serial.Open fails.
OpenDetectedFails ==
    /\ ~crashed /\ sup = "detected"
    /\ sup' = "failed"
    /\ UNCHANGED <<cfgPort, connLimit, selected, attempt, retryAfter, connVars, taskVars, cache,
                   nconn, closes, msgVars, cl, crashed, histVars, obsVars>>

\* runOnce -> connectSerial(selectedPort) on the detected port: s.port = the handle.
ConnectDetected ==
    /\ ~crashed /\ sup = "detected" /\ nconn < connLimit
    /\ nconn' = nconn + 1
    /\ port' = nconn + 1
    /\ sup' = "name"
    /\ delays' = Keep(delays, 0)
    /\ UNCHANGED <<cfgPort, connLimit, selected, attempt, retryAfter, portName, connected,
                   taskVars, cache, closes, msgVars, cl, crashed, histVars, rx, scan, devVars>>

AutoDetect == ScanBegin \/ ProbeOpen \/ ProbeWrite \/ ProbeRead \/ ScanExhausted

\* The supervisor with no configured port: every attempt probes the enumerated ports.
InitDetect == Start({NoPort}, MaxConn)

NextDetect ==
    \/ ListPortsFails \/ AutoDetect \/ OpenDetectedFails \/ ConnectDetected
    \/ SetPortName \/ PublishConnected \/ SpawnReader \/ SpawnRefresh \/ SpawnPoll \/ Joined
    \/ FailDisconnect \/ FailEvict \/ Sleep
    \/ \E h \in Conns : Teardown(h)

SpecDetect == InitDetect /\ [][NextDetect]_vars

\* ------------------------------------------- firmware: UART receive path
\* What the link manager does while the firmware alone is followed: nothing.
LinkIdle == UNCHANGED <<cfgPort, connLimit, supVars, connVars, taskVars, cache, nconn, closes,
                        msgVars, cl, crashed, histVars, rx, delays, scan>>

\* The receive buffer is followed as a sequence of pieces: the marker CMD_START:
\* (10 bytes), the marker :CMD_END (8 bytes), the text of a get_status command
\* (23 bytes), and blocks of other bytes.
Piece(k, n) == [k |-> k, n |-> n]

StartMark == Piece("S", 10)
EndMark == Piece("E", 8)
StatusCmd == Piece("cmd", 23)

Pieces ==
    {StartMark, EndMark, StatusCmd,
     Piece("junk", 1), Piece("junk", RecvLimit - 10), Piece("junk", RecvLimit + 1)}

RECURSIVE Bytes(_)
\* #uart_recv_buffer
Bytes(buf) == IF buf = <<>> THEN 0 ELSE Head(buf).n + Bytes(Tail(buf))

\* What uart.read hands the callback: one or two pieces.
Chunks == {<<a>> : a \in Pieces} \cup {<<a, b>> : a \in Pieces, b \in Pieces}

\* string.find(marker, from, true): the first position at or after `from`, 0 for nil.
Find(buf, mark, from) ==
    LET hits == {i \in from..Len(buf) : buf[i] = mark}
    IN  IF hits = {} THEN 0 ELSE CHOOSE i \in hits : \A j \in hits : i <= j

Frame(type, msg) == [type |-> type, msg |-> msg]

OverflowError == Frame("error", "Buffer overflow, cleared")

\* The callback's handling of one extracted json_str: empty text is passed over,
\* a decoded command goes to process_uart_command (get_status answers with a
\* status_response), anything else is answered with an error frame.
Handle(json) ==
    IF json = <<>> THEN <<>>
    ELSE IF json = <<StatusCmd>> THEN <<Frame("status_response", "")>>
    ELSE <<Frame("error", "Invalid JSON")>>

RECURSIVE Drain(_, _)
\* The callback's while loop: take out every complete CMD_START:...:CMD_END from
\* the front of the buffer; what is left, and the frames sent meanwhile.
Drain(buf, out) ==
    LET start_pos == Find(buf, StartMark, 1)
        end_pos == IF start_pos = 0 THEN 0 ELSE Find(buf, EndMark, start_pos + 1)
    IN  IF start_pos = 0 \/ end_pos = 0 THEN [buf |-> buf, out |-> out]
        ELSE Drain(SubSeq(buf, end_pos + 1, Len(buf)),
                   out \o Handle(SubSeq(buf, start_pos + 1, end_pos - 1)))

\* Variant: the buffer is cleared as soon as it reaches the limit.
OverflowsAtLimit(buf) == Bytes(buf) >= RecvLimit

\* The callback's overflow protection: #uart_recv_buffer > 4096
Overflows(buf) == Bytes(buf) > RecvLimit

\* The firmware after uart.setup, before the first callback.
UartBoot == [on |-> "uart", recv |-> <<>>, pre |-> <<>>, rest |-> <<>>, out |-> <<>>]

\* uart.on(uartid, "receive", ...) with a chunk: append, drain, overflow protection.
UartReceive ==
    /\ fw.on = "uart"
    /\ \E chunk \in Chunks :
          /\ Len(fw.recv) + Len(chunk) <= MaxSyms
          /\ LET d == Drain(fw.recv \o chunk, <<>>)
             IN  fw' = [fw EXCEPT !.pre = fw.recv \o chunk,
                                  !.rest = d.buf,
                                  !.recv = IF Overflows(d.buf) THEN <<>> ELSE d.buf,
                                  !.out = IF Overflows(d.buf) THEN Append(d.out, OverflowError)
                                          ELSE d.out]
    /\ sched' = sched
    /\ LinkIdle

\* uart.on(uartid, "receive", ...) when uart.read returns nil: return at once.
UartReceiveNil ==
    /\ fw.on = "uart" /\ fw.out # <<>>
    /\ fw' = [fw EXCEPT !.pre = fw.recv, !.rest = fw.recv, !.out = <<>>]
    /\ sched' = sched
    /\ LinkIdle

InitRecv == NewSerialService({"ttyUSB0"}, MaxConn, NoLog) /\ fw = UartBoot /\ sched = NoScheduler

NextRecv == UartReceive \/ UartReceiveNil

SpecRecv == InitRecv /\ [][NextRecv]_vars

\* ------------------------------------------ firmware: incoming SMS buffer
\* Variant: at a full buffer the message that has just arrived is the one dropped.
TrimNewest(buf) ==
    IF Len(buf) > max_buffer_size THEN SubSeq(buf, 1, Len(buf) - 1) ELSE buf

\* SMS_INC subscriber: if #msg_buffer > max_buffer_size then table.remove(msg_buffer, 1)
Trim(buf) == IF Len(buf) > max_buffer_size THEN Tail(buf) ELSE buf

\* The firmware with an empty msg_buffer and its forwarding task started; incoming
\* messages are numbered in the order of their arrival.
SmsBoot == [on |-> "sms", msg_buffer |-> <<>>, arrived |-> 0, sent |-> <<>>, lost |-> {},
            task |-> "run"]

\* send_to_uart: pcall(json.encode, data) succeeds, or fails for a message the
\* encoder rejects.
EncodeResults == IF Cardinality(fw.lost) < MaxLost THEN BOOLEAN ELSE {TRUE}

\* SMS_INC subscriber: table.insert(msg_buffer, msg), the trim, sys.publish.
SmsArrives ==
    /\ fw.on = "sms" /\ fw.arrived < MaxArrivals
    /\ fw' = [fw EXCEPT !.arrived = @ + 1,
                        !.msg_buffer = Trim(Append(@, fw.arrived + 1)),
                        !.task = "run"]
    /\ sched' = sched
    /\ LinkIdle

\* Forwarding task: msg = table.remove(msg_buffer, 1); send_to_uart(msg); sys.wait(50).
\* send_to_uart writes the frame unless json.encode fails, and then only logs.
ForwardOne ==
    /\ fw.on = "sms" /\ fw.task = "run" /\ fw.msg_buffer # <<>>
    /\ \E ok \in EncodeResults :
          fw' = [fw EXCEPT !.msg_buffer = Tail(@),
                           !.sent = IF ok THEN Append(@, Head(fw.msg_buffer)) ELSE @,
                           !.lost = IF ok THEN @ ELSE @ \cup {Head(fw.msg_buffer)}]
    /\ sched' = sched
    /\ LinkIdle

\* Forwarding task: if #msg_buffer == 0 then sys.waitUntil("NEW_MSG_IN_BUFFER")
ForwardWaits ==
    /\ fw.on = "sms" /\ fw.task = "run" /\ fw.msg_buffer = <<>>
    /\ fw' = [fw EXCEPT !.task = "waitUntil"]
    /\ sched' = sched
    /\ LinkIdle

InitSms == NewSerialService({"ttyUSB0"}, MaxConn, NoLog) /\ fw = SmsBoot /\ sched = NoScheduler

NextSms == SmsArrives \/ ForwardOne \/ ForwardWaits

SpecSms == InitSms /\ [][NextSms]_vars

\* ------------------------------------- firmware: commands and event frames
\* request_id values of a command: none, or one of two ids.
NoRid == 0
Rids == {NoRid, 1, 2}

\* os.time(), used as request_id when the command has none.
OsTime == -2

Cmd(action, to, content, rid, enabled) ==
    [action |-> action, to |-> to, content |-> content, rid |-> rid, enabled |-> enabled]

\* What json.decode can hand process_uart_command: no action, send_sms with or
\* without its fields, get_status, set_cellular with or without enabled,
\* reset_stack, reboot_mcu, and an action the firmware does not know.
Commands ==
    {Cmd("", FALSE, FALSE, NoRid, "nil")}
    \cup {Cmd("send_sms", TRUE, TRUE, r, "nil") : r \in Rids}
    \cup {Cmd("send_sms", TRUE, FALSE, 1, "nil"), Cmd("send_sms", FALSE, TRUE, 1, "nil")}
    \cup {Cmd(a, FALSE, FALSE, NoRid, "nil") :
              a \in {"get_status", "set_cellular", "reset_stack", "reboot_mcu", "bogus"}}
    \cup {Cmd("set_cellular", FALSE, FALSE, NoRid, en) : en \in {"true", "false"}}

\* process_uart_command: which branch of the if chain takes the command.
Branch(cmd) ==
    IF cmd.action = "" THEN "missing"
    ELSE IF cmd.action = "send_sms" /\ cmd.to /\ cmd.content THEN "send_sms"
    ELSE IF cmd.action = "get_status" THEN "get_status"
    ELSE IF cmd.action = "set_cellular" /\ cmd.enabled # "nil" THEN "set_cellular"
    ELSE IF cmd.action = "reset_stack" THEN "reset_stack"
    ELSE IF cmd.action = "reboot_mcu" THEN "reboot_mcu"
    ELSE "unknown"

\* No frame written yet, or none written by the step.
NoFrame == ""

\* process_uart_command: the type of the frame the branch sends at once (the
\* send_sms branch sends nothing itself, its task does).
Reply(branch) ==
    CASE branch = "missing"      -> "error"
      [] branch = "send_sms"     -> NoFrame
      [] branch = "get_status"   -> "status_response"
      [] branch = "set_cellular" -> "cmd_response"
      [] branch = "reset_stack"  -> "cmd_response"
      [] branch = "reboot_mcu"   -> "cmd_response"
      [] OTHER                   -> "error"

\* Variant: the result carries the module's clock instead of the command's id.
RequestIdFromClock(cmd) == OsTime

\* process_uart_command: local request_id = cmd_data.request_id or os.time()
RequestId(cmd) == IF cmd.rid # NoRid THEN cmd.rid ELSE OsTime

\* The firmware after start: no send accepted, no frame sent.  cmds[n] is the n-th
\* accepted send_sms command, pending the commands whose task waits in
\* sms.sendLong(...).wait(), results[n] the sms_send_result frames sent for it,
\* gone the commands whose task a reboot ended, last the type of the latest frame
\* written; limit bounds the accepted commands explored in the run.
CmdBoot(limit) ==
    [on |-> "cmd", limit |-> limit, cmds |-> <<>>, ids |-> <<>>, pending |-> {}, gone |-> {},
     results |-> [n \in 1..MaxCmds |-> <<>>], last |-> NoFrame,
     call_ring_count |-> 0, ready |-> FALSE]

\* process_uart_command(cmd) for every branch but reboot_mcu.
UartCommand ==
    /\ fw.on = "cmd"
    /\ \E cmd \in Commands :
          LET b == Branch(cmd)
          IN  /\ b # "reboot_mcu"
              /\ b = "send_sms" => Len(fw.cmds) < fw.limit
              /\ fw' = IF b = "send_sms"
                       THEN [fw EXCEPT !.cmds = Append(@, cmd),
                                       !.ids = Append(@, RequestId(cmd)),
                                       !.pending = @ \cup {Len(fw.cmds) + 1}]
                       ELSE [fw EXCEPT !.last = Reply(b)]
    /\ sched' = sched
    /\ LinkIdle

\* process_uart_command, reboot_mcu: the acknowledgement, then pm.reboot(): every
\* task ends with the module, which starts again.
RebootCommand ==
    /\ fw.on = "cmd"
    /\ fw' = [fw EXCEPT !.last = Reply("reboot_mcu"),
                        !.gone = @ \cup fw.pending,
                        !.pending = {},
                        !.call_ring_count = 0,
                        !.ready = FALSE]
    /\ sched' = sched
    /\ LinkIdle

\* The task of an accepted send_sms: sms.sendLong(to, content).wait() returns and
\* send_to_uart writes the sms_send_result, unless json.encode fails.
SmsSendReturns ==
    /\ fw.on = "cmd"
    /\ \E n \in fw.pending, success \in BOOLEAN, encoded \in BOOLEAN :
          fw' = [fw EXCEPT !.pending = @ \ {n},
                           !.results[n] =
                               IF encoded
                               THEN Append(@, [type |-> "sms_send_result",
                                               request_id |-> fw.ids[n],
                                               success |-> success])
                               ELSE @,
                           !.last = IF encoded THEN "sms_send_result" ELSE @]
    /\ sched' = sched
    /\ LinkIdle

\* The start task: sys.wait(5000), then system_ready.
SystemReady ==
    /\ fw.on = "cmd" /\ ~fw.ready
    /\ fw' = [fw EXCEPT !.ready = TRUE, !.last = "system_ready"]
    /\ sched' = sched
    /\ LinkIdle

\* The start task's loop (heartbeat every 60 s), the SIM_IND subscriber, the
\* forwarding task (incoming_sms) and the receive callback's own error frames.
EventFrame ==
    /\ fw.on = "cmd"
    /\ \E t \in {"sim_event", "incoming_sms", "error"} \cup
                (IF fw.ready THEN {"heartbeat"} ELSE {}) :
          fw' = [fw EXCEPT !.last = t]
    /\ sched' = sched
    /\ LinkIdle

\* CC_IND subscriber: READY only logs; INCOMINGCALL notifies at the first ring and
\* hangs up after the third; DISCONNECTED resets the count and notifies.
CallEvent ==
    /\ fw.on = "cmd"
    /\ \E state \in {"READY", "INCOMINGCALL", "DISCONNECTED"} :
          CASE state = "INCOMINGCALL" ->
                  /\ fw.call_ring_count < MaxRings
                  /\ fw' = [fw EXCEPT !.call_ring_count = @ + 1,
                                      !.last = IF fw.call_ring_count = 0
                                               THEN "incoming_call" ELSE @]
            [] state = "DISCONNECTED" ->
                  fw' = [fw EXCEPT !.call_ring_count = 0,
                                   !.last = "call_disconnected"]
            [] OTHER -> fw' = fw
    /\ sched' = sched
    /\ LinkIdle

\* routeMessage: the message types that have a handler.
Recognized ==
    {"status_response", "system_ready", "heartbeat", "cellular_control_response",
     "phone_number_response", "command_response", "sim_event", "warning", "error",
     "incoming_sms", "incoming_call", "sms_send_result"}

\* The firmware's commands and the tasks of its sends.
InitCmd ==
    /\ NewSerialService({"ttyUSB0"}, MaxConn, NoLog)
    /\ fw = CmdBoot(MaxCmds)
    /\ sched = NoScheduler

NextCmd == UartCommand \/ RebootCommand \/ SmsSendReturns

SpecCmd == InitCmd /\ [][NextCmd]_vars

\* Everything that makes the firmware write a frame.
InitEmit ==
    /\ NewSerialService({"ttyUSB0"}, MaxConn, NoLog)
    /\ fw = CmdBoot(EmitCmds)
    /\ sched = NoScheduler

NextEmit ==
    UartCommand \/ RebootCommand \/ SmsSendReturns \/ SystemReady \/ EventFrame \/ CallEvent

SpecEmit == InitEmit /\ [][NextEmit]_vars

\* ------------------------------------------------------------- scheduler
\* Ticks in 24 hours; a tick is long against the time a check takes.
DayTicks == 4

Tasks == 1..MaxTasks

\* models.ScheduledTask: the fields the scheduler reads and writes.
ScheduledTask(enabled, days, last) ==
    [Enabled |-> enabled, IntervalDays |-> days, LastRunAt |-> last]

\* shouldExecuteTask: a task that never ran is due; otherwise
\* int(now.Sub(lastRun).Hours() / 24) >= task.IntervalDays
ShouldExecuteTask(task, now) ==
    IF task.LastRunAt = 0 THEN TRUE
    ELSE ((now - task.LastRunAt) \div DayTicks) >= task.IntervalDays

\* What executeTask meets in SendSMS: it returns nil, it returns an error, or
\* sendJSONCommand panics on the nil handle; the cron job has no recover.
SendOutcomes == {"sent", "failed", "panic"}

\* What executeTask can meet for one task: the outcome of SendSMS, and after a
\* successful send how many ticks after the check's time.Now() the new LastRunAt
\* is taken and whether repo.UpdateById stores it.
\* NoAttempt: executeTask is not called for the task.
NoAttempt == [send |-> "none", lag |-> 0, stored |-> FALSE]

Attempts ==
    {NoAttempt} \cup {[send |-> o, lag |-> 0, stored |-> FALSE] : o \in SendOutcomes}
    \cup {[send |-> "sent", lag |-> lag, stored |-> TRUE] : lag \in 0..MaxLag}

\* checkAndExecuteTasks at time now: what happens to task t, the tasks being
\* handled in the order FindAllEnabled returns them.
Fate(tasks, t, now, listed, out) ==
    IF ~listed THEN "unlisted"
    ELSE IF ~tasks[t].Enabled THEN "disabled"
    ELSE IF \E j \in 1..(t - 1) :
               /\ tasks[j].Enabled /\ ShouldExecuteTask(tasks[j], now)
               /\ out[j].send = "panic"
         THEN "unreached"
    ELSE IF ~ShouldExecuteTask(tasks[t], now) THEN "waiting"
    ELSE out[t].send

\* The scheduler after Start: its tasks as created, none run yet.  day counts the
\* daily checks, fate is what the latest check did with each task, ranAt the
\* check at which a task last ran with its LastRunAt stored.
NewSchedulerService(tasks) ==
    [on |-> "sched", day |-> 0, now |-> 0, tasks |-> tasks,
     fate |-> [t \in Tasks |-> "none"], ranAt |-> [t \in Tasks |-> 0], crashed |-> FALSE]

\* The cron job of Start, "0 8 * * *": checkAndExecuteTasks with executeTask for
\* every due task; a successful send stores LastRunAt = time.Now() unless the
\* update fails, which is only logged.
CheckAndExecuteTasks ==
    /\ sched.on = "sched" /\ ~sched.crashed /\ sched.day < MaxDays
    /\ \E skew \in 0..MaxSkew, listed \in BOOLEAN, out \in [Tasks -> Attempts] :
          LET now == (sched.day + 1) * DayTicks + skew
              fate == [t \in Tasks |-> Fate(sched.tasks, t, now, listed, out)]
          IN  /\ \A t \in Tasks :
                    (out[t] = NoAttempt)
                        <=> (fate[t] \in {"unlisted", "disabled", "unreached", "waiting"})
              /\ sched' = [sched EXCEPT
                      !.day = @ + 1,
                      !.now = now,
                      !.fate = fate,
                      !.crashed = \E t \in Tasks : fate[t] = "panic",
                      !.tasks = [t \in Tasks |->
                                   IF fate[t] = "sent" /\ out[t].stored
                                   THEN [@[t] EXCEPT !.LastRunAt = now + out[t].lag]
                                   ELSE @[t]],
                      !.ranAt = [t \in Tasks |->
                                   IF fate[t] = "sent"
                                   THEN (IF out[t].stored THEN sched.day + 1 ELSE 0)
                                   ELSE @[t]]]
    /\ fw' = fw
    /\ LinkIdle

InitSched ==
    /\ NewSerialService({"ttyUSB0"}, MaxConn, NoLog)
    /\ fw = NoFirmware
    /\ \E tasks \in [Tasks -> {ScheduledTask(en, n, 0) : en \in BOOLEAN, n \in 1..MaxInterval}] :
          sched = NewSchedulerService(tasks)

NextSched == CheckAndExecuteTasks

SpecSched == InitSched /\ [][NextSched]_vars

\* ================================================================ claims
Live(pc) == pc \notin {"none", "panicked"}

\* C1: once the disconnected state of a lost connection has been published, no
\* GetStatus call that starts afterwards returns device fields that were cached
\* during that connection (the cache entry is evicted as part of the transition).
C1_LostConnectionEvictsCache ==
    [][(cl.pc = "cache" /\ cl'.pc = "idle")
          => ~(Snapshot(cl).dev # 0 /\ Snapshot(cl).dev <= cl.lostAt)]_vars

\* C2: after an established connection is lost the supervisor sleeps for the
\* backoff delay before its next connection attempt; no attempt follows a loss
\* immediately.
C2_SleepsBeforeReconnect == trail # "immediate"

\* C3: a panic in the refresh loop is converted into the Connected -> Disconnected
\* transition: when that loop has exited after a panic, the port handle of its
\* connection has been closed and the connection's context cancelled.
C3_RefreshPanicDisconnects ==
    \A h \in Conns : refresh[h] = "panicked" => closes[h] >= 1 /\ cancelled[h]

\* C4: the supervisor starts no connection attempt before both loops of the previous
\* connection have exited; at most one reader loop and at most one refresh loop run
\* at any moment.
C4_JoinBeforeReconnect ==
    /\ Cardinality({h \in Conns : Live(reader[h])}) <= 1
    /\ Cardinality({h \in Conns : Live(refresh[h])}) <= 1
    /\ sup \in {"start", "failed", "evict", "sleep", "name", "publish", "spawnReader"}
          => \A h \in Conns : ~Live(reader[h]) /\ ~Live(refresh[h])
    /\ \A h \in Conns : (Live(reader[h]) \/ Live(refresh[h])) => h = nconn

C4_Witness ==
    /\ nconn = 2 /\ lost = 1
    /\ reader[2] = "loop" /\ refresh[2] = "select"

\* C5: each connection starts exactly two tasks, the reader and the refresh loop;
\* once the supervisor has joined them, nothing that was started for the old
\* connection is still running and able to act on the port handle.
C5_NothingLeftAfterJoin ==
    \A h \in Conns :
        h <= lost => ~Live(reader[h]) /\ ~Live(refresh[h]) /\ poll[h] = "none"

\* C6: a handle opened by connectSerial is closed exactly once, by the reader of
\* its own connection during the disconnect transition; no sender closes or
\* replaces it.
C6_HandleClosedOnce ==
    /\ port \in {0, nconn}
    /\ \A h \in Conns :
          /\ closes[h] <= 1
          /\ h <= lost => closes[h] = 1
          /\ closes[h] = 1 => h <= nconn /\ reader[h] \notin {"loop", "close"}
          /\ (h = nconn /\ closes[h] = 0) => port = h

C6_Witness ==
    /\ nconn = 2 /\ lost = 2 /\ closes[1] = 1 /\ closes[2] = 1
    /\ cl.pc = "return" /\ cl.err = "write"

\* C7: sendJSONCommand called with no handle open returns the not-connected error
\* in that very step, writing nothing and changing no other state; ResetStack and
\* RebootMcu hand that error to their caller and do nothing more.
C7_NotConnectedAtOnce ==
    [][/\ (cl.pc = "check" /\ port = 0 /\ cl' # cl)
             => /\ cl' = [cl EXCEPT !.pc = IF cl.op = "send" THEN "mark" ELSE "return",
                                    !.err = "not_connected"]
                /\ UNCHANGED <<connVars, taskVars, cache, nconn, closes, msgVars, sup>>
       /\ (cl.pc = "return" /\ cl' # cl)
             => /\ cl' = Idle
                /\ UNCHANGED <<connVars, taskVars, cache, nconn, closes, msgVars, sup>>
      ]_vars

C7_Witness == cl.op = "reboot" /\ cl.pc = "return" /\ cl.err = "not_connected"

\* C8: every send_sms command on the wire was written when the record with its
\* request_id was already stored with status sending.
C8_SavedBeforeWritten ==
    \A w \in wire : w.st = "sending" /\ w.rid \in DOMAIN store

C8_Witness == \E w \in wire : store[w.rid] = "sent"

FailedWrite(c) == c.err \in {"write", "not_connected"}

\* C9 as claimed: after a SendSMS call whose write failed, the record of that
\* attempt exists with status failed and the call returned no tracking id.
C9_FailedWriteIsFailed ==
    \A i \in 1..Len(calls) :
        FailedWrite(calls[i])
            => /\ calls[i].id = 0
               /\ calls[i].rec \in DOMAIN store
               /\ store[calls[i].rec] = "failed"

\* C9 amended: after a SendSMS call whose write failed the call returned no
\* tracking id and the record of that attempt exists; its status is failed when
\* the status update succeeded and still sending when the update itself failed.
C9_FailedWriteMarked ==
    \A i \in 1..Len(calls) :
        FailedWrite(calls[i])
            => /\ calls[i].id = 0
               /\ calls[i].rec \in DOMAIN store
               /\ store[calls[i].rec] = IF calls[i].upd THEN "failed" ELSE "sending"

C9_Witness ==
    \E i, j \in 1..Len(calls) :
        /\ calls[i].err = "not_connected" /\ calls[i].upd
        /\ calls[j].err = "write" /\ calls[j].upd
        /\ store[calls[i].rec] = "failed" /\ store[calls[j].rec] = "failed"

Succeeded(c) == c.err = ""

\* C10: the tracking id a successful SendSMS returns is the id of the record it
\* saved and the request_id of the command it wrote, and two successful calls
\* return different ids.
C10_TrackingId ==
    /\ \A i \in 1..Len(calls) :
          Succeeded(calls[i])
              => /\ calls[i].id # 0
                 /\ calls[i].id = calls[i].rec
                 /\ calls[i].id \in DOMAIN store
                 /\ \E w \in wire : w.rid = calls[i].id
    /\ \A i, j \in 1..Len(calls) :
          (i # j /\ Succeeded(calls[i]) /\ Succeeded(calls[j]))
              => calls[i].id # calls[j].id

\* Two calls have returned their ids while the device has answered neither.
C10_Witness ==
    /\ Len(calls) = 2
    /\ \A i \in 1..2 : Succeeded(calls[i]) /\ store[calls[i].id] = "sending"

RECURSIVE Streak(_, _)
\* Failed attempts in a row that end at position i of the log.
Streak(log, i) == IF i = 0 \/ log[i] = 0 THEN 0 ELSE 1 + Streak(log, i - 1)

Least(a, b) == IF a <= b THEN a ELSE b

\* C14 as claimed: failed attempts with no successful connection in between sleep
\* non-decreasing delays.
C14_DelaysNonDecreasing ==
    \A i \in 1..(Len(delays) - 1) :
        (delays[i] # 0 /\ delays[i + 1] # 0) => delays[i] <= delays[i + 1]

\* C14 amended: the k-th failed attempt in a row (k = 0, 1, ...) sleeps a delay
\* between minDelay and min(maxDelay, minDelay * 2^k), a limit that does not
\* decrease with k; the jittered delays themselves may decrease.
C14_DelayLimitGrows ==
    \A i \in 1..Len(delays) :
        delays[i] # 0
            => LET k == Streak(delays, i - 1)
               IN  /\ BackoffMin <= delays[i]
                   /\ delays[i] <= Least(BackoffMax, BackoffMin * Pow(BackoffFactor, k))
                   /\ Least(BackoffMax, BackoffMin * Pow(BackoffFactor, k))
                         <= Least(BackoffMax, BackoffMin * Pow(BackoffFactor, k + 1))

\* Three failures in a row whose delays go up and then down.
C14_Witness ==
    /\ Len(delays) >= 3
    /\ delays[1] = BackoffMin /\ delays[2] > delays[1]
    /\ delays[3] # 0 /\ delays[3] < delays[2]

\* C15: every retry delay lies between minDelay and maxDelay, and the first failed
\* attempt after a successful connection sleeps exactly minDelay.
C15_DelayRangeAndReset ==
    \A i \in 1..Len(delays) :
        delays[i] # 0
            => /\ BackoffMin <= delays[i] /\ delays[i] <= BackoffMax
               /\ (i > 1 /\ delays[i - 1] = 0) => delays[i] = BackoffMin

\* Two failures, the second with a longer delay, then a success, then a failure.
C15_Witness ==
    /\ Len(delays) = 4
    /\ delays[1] # 0 /\ delays[2] > BackoffMin
    /\ delays[3] = 0 /\ delays[4] = BackoffMin

\* C16: after a connection-fatal error (a failed attempt, or a read that ended the
\* reader loop) the supervisor eventually stands at the top of its loop again, and
\* from there it always makes a further connection attempt.
C16_SupervisorRetries ==
    /\ (sup = "failed" \/ \E h \in Conns : reader[h] = "close") ~> (sup = "start")
    /\ (sup = "start") ~> (sup # "start")

\* C13: GetStatus reads the connection-state as it is when called, in every
\* connection state, and returns no error: on a cache hit the cached device
\* snapshot, on a miss a zero one, either with port name and connected flag as read.
C13_StatusOverlay ==
    [][/\ (cl.pc = "idle" /\ cl'.pc = "cache")
             => cl'.pname = portName /\ cl'.conn = connected
       /\ (cl.pc = "cache" /\ cl'.pc = "idle")
             => LET r == GetStatus(cl)
                IN  /\ r.err = ""
                    /\ r.status.dev = cache
                    /\ r.status.pname = cl.pname
                    /\ r.status.conn = cl.conn
      ]_vars

\* A call on a cache hit whose connection fields differ from a zero snapshot's.
C13_Witness ==
    /\ cl.pc = "cache" /\ cache # 0
    /\ cl.conn /\ cl.pname = "ttyUSB0"

\* The reader of connection h hands the message in rx to its handler in this step.
Routes(h) == reader[h] = "route" /\ reader'[h] = "loop"

IsResult(m) == m.kind = "frame" /\ m.type = "sms_send_result"

ResultStatus(m) == IF m.success THEN "sent" ELSE "failed"

\* C11 as claimed: routing an sms_send_result sets the record with its request_id
\* to sent or failed by the reported outcome; a result with no request_id or with
\* one that matches no record changes no record.
C11_ResultSetsStatus ==
    [][\A h \in Conns :
          (Routes(h) /\ IsResult(rx))
              => IF rx.rid \in DOMAIN store
                 THEN store' = [store EXCEPT ![rx.rid] = ResultStatus(rx)]
                 ELSE store' = store
      ]_vars

\* C11 amended: routing an sms_send_result changes at most the record with its
\* request_id, and only to the status the outcome reports; it leaves that record as
\* it was when the storage update fails, and a result with no request_id or with
\* one that matches no record changes no record.
C11_ResultUpdatesOnlyItsRecord ==
    [][\A h \in Conns :
          (Routes(h) /\ IsResult(rx))
              => IF rx.rid \in DOMAIN store
                 THEN \/ store' = [store EXCEPT ![rx.rid] = ResultStatus(rx)]
                      \/ store' = store
                 ELSE store' = store
      ]_vars

\* A result that reports failure is in the router while its record is sending and
\* another record exists; and a result with an unknown request_id can arrive.
C11_Witness ==
    \E h \in Conns :
        /\ reader[h] = "route" /\ IsResult(rx) /\ ~rx.success
        /\ rx.rid \in DOMAIN store /\ store[rx.rid] = "sending"
        /\ \E i \in DOMAIN store : i # rx.rid

\* C12: a record whose command was written keeps status sending until a result
\* with its request_id is routed; no other step changes it.
C12_SendingUntilResult ==
    [][\A id \in DOMAIN store :
          ((\E w \in wire : w.rid = id) /\ store[id] = "sending" /\ store'[id] # "sending")
              => \E h \in Conns : Routes(h) /\ IsResult(rx) /\ rx.rid = id
      ]_vars

\* A written record is still sending after its connection was lost and joined and a
\* later send has failed.
C12_Witness ==
    \E id \in DOMAIN store :
        /\ \E w \in wire : w.rid = id
        /\ store[id] = "sending"
        /\ lost >= 1 /\ port = 0
        /\ \E i \in 1..Len(calls) : calls[i].rec # id /\ calls[i].err = "not_connected"

Undecodable(m) == m.kind \in {"unframed", "malformed", "untyped"}

\* C17: the router only ever holds a decoded message with a type; a line that is not
\* framed, does not parse or has no type goes back to the read loop without being
\* routed and changes neither the status cache nor the stored records.
C17_RouterSeesDecodedOnly ==
    [][\A h \in Conns :
          /\ reader[h] = "route" => (rx.kind = "frame" /\ rx.type # "")
          /\ (reader[h] = "process" /\ Undecodable(rx) /\ reader'[h] # "process")
                => /\ reader'[h] = "loop"
                   /\ cache' = cache /\ store' = store
      ]_vars

\* An untyped frame is being decoded while a sent record waits for its result and
\* the cache holds a snapshot.
C17_Witness ==
    \E h \in Conns :
        /\ reader[h] = "process" /\ rx.kind = "untyped"
        /\ cache # 0 /\ \E w \in wire : store[w.rid] = "sending"

\* C18: decoding a line never ends the connection: after an undecodable line the
\* reader is back in its loop with the port, the context and the connected flag
\* untouched; the reader leaves its loop only from the read itself (end of stream,
\* read error) or from a panic below the router.
C18_DecodeFailureNotFatal ==
    [][\A h \in Conns :
          /\ (reader[h] = "process" /\ reader'[h] # "process")
                => /\ reader'[h] \in {"loop", "route"}
                   /\ Undecodable(rx) => reader'[h] = "loop"
                   /\ UNCHANGED <<port, portName, connected, cancelled, closes, wg>>
          /\ (reader[h] # "close" /\ reader'[h] = "close")
                => reader[h] \in {"loop", "route"}
      ]_vars

\* A malformed frame is being decoded on a connection published as connected.
C18_Witness ==
    \E h \in Conns :
        /\ reader[h] = "process" /\ rx.kind = "malformed"
        /\ connected /\ port = h /\ sup = "wait"


\* The refresh loop of connection h calls requestCacheUpdate on a tick.
TickPolls(h) == refresh[h] = "select" /\ refresh'[h] = "check"

\* A poll of connection h comes back from its write without a panic.
PollReturns(h) ==
    \/ refresh[h] = "write" /\ refresh'[h] = "select"
    \/ poll[h] = "write" /\ poll'[h] = "none" /\ ~crashed'

\* Connection h is established and neither lost nor cancelled.
Lasts(h) == sup = "wait" /\ port = h /\ connected /\ ~cancelled[h]

\* C19: every successful connection starts with a get_status poll, the refresh
\* loop keeps polling for as long as the connection lasts, a poll whose write
\* returns (with or without an error) changes neither the connection nor the
\* cache, and the refresh loop issues no poll once the connection's context is
\* cancelled.
C19_PollsWhileConnected ==
    [][ /\ (sup = "spawnPoll" /\ sup' = "wait") => poll'[nconn] = "check"
        /\ \A h \in Conns :
              /\ Lasts(h)' => refresh'[h] \in {"select", "check", "write"}
              /\ PollReturns(h) =>
                    /\ UNCHANGED <<port, portName, connected, cancelled, cache, closes>>
              /\ TickPolls(h) => ~cancelled[h] ]_vars


\* The probe of a candidate went through: opened, probe written, and a framed
\* answer read without an error.
Qualifies(e) ==
    e.opened /\ e.wrote /\ ~e.answer.err /\ e.answer.n > 0 /\ e.answer.data = "framed"

\* C20: when autoDetectPort has returned, the candidates it probed are the
\* enumeration in order up to where it stopped; if it returned a port, that port
\* is the last one probed, it qualifies and no candidate before it does, and no
\* candidate after it was probed; if it failed, every candidate was probed and
\* none qualifies.
C20_FirstQualifyingPort ==
    scan.step = "returned" =>
        LET k == Len(scan.probed)
        IN  /\ k <= Len(scan.ports)
            /\ \A j \in 1..k : scan.probed[j].name = scan.ports[j]
            /\ scan.port # NoPort =>
                  /\ k >= 1 /\ scan.port = scan.ports[k]
                  /\ Qualifies(scan.probed[k])
                  /\ \A j \in 1..(k - 1) : ~Qualifies(scan.probed[j])
            /\ scan.port = NoPort =>
                  /\ k = Len(scan.ports)
                  /\ \A j \in 1..k : ~Qualifies(scan.probed[j])

\* autoDetectPort returned the second of three candidates after the first one
\* answered without the envelope markers.
C20_Witness ==
    /\ scan.step = "returned" /\ Len(scan.ports) = 3 /\ scan.port = scan.ports[2]
    /\ scan.probed[1].answer.data = "noise"
    /\ sup = "detected"


\* C21: when autoDetectPort has returned, with a port or with an error, none of
\* the ports it opened for probing is still open, whether the probe write failed,
\* the read failed or the answer was accepted or not.
C21_ProbedPortsClosed ==
    scan.step = "returned" => scan.open = {}

\* autoDetectPort returned after opening three candidates: the first failed the
\* write, the second answered without the markers, the third was accepted.
C21_Witness ==
    /\ scan.step = "returned" /\ Len(scan.probed) = 3
    /\ scan.probed[1].opened /\ ~scan.probed[1].wrote
    /\ scan.probed[2].wrote /\ scan.probed[2].answer.data = "noise"
    /\ scan.port = scan.ports[3]


StorageFailed(c) == c.err = "storage"

\* C22: the SendSMS call whose record could not be saved returns at once with the
\* storage error and no tracking id, without a write to the port; and no command
\* with the id of such a call is ever on the wire.
C22_SaveFailureReturned ==
    [][ /\ (nextId' = nextId + 1 /\ store' = store) =>
              /\ cl' = Idle
              /\ wire' = wire /\ port' = port
              /\ Len(calls') = Len(calls) + 1
              /\ StorageFailed(calls'[Len(calls')])
              /\ calls'[Len(calls')].id = 0
        /\ \A i \in 1..Len(calls') :
              StorageFailed(calls'[i]) =>
                 /\ calls'[i].id = 0
                 /\ calls'[i].rec \notin DOMAIN store'
                 /\ \A w \in wire' : w.rid # calls'[i].rec ]_vars

\* A call failed on storage while the port was open, and a later call went
\* through to the wire.
C22_Witness ==
    /\ Len(calls) = 2 /\ StorageFailed(calls[1]) /\ calls[2].err = ""
    /\ port # 0 /\ wire # {}


\* A complete frame: a start marker with an end marker somewhere after it.
HasFrame(buf) ==
    \E i, j \in 1..Len(buf) : i < j /\ buf[i] = StartMark /\ buf[j] = EndMark

RECURSIVE Count(_, _)
Count(out, f) ==
    IF out = <<>> THEN 0 ELSE (IF Head(out) = f THEN 1 ELSE 0) + Count(Tail(out), f)

\* C23: after every receive callback the buffer holds at most 4096 bytes and no
\* complete frame; if what the frame extraction left was longer than 4096 bytes
\* the buffer is empty and exactly one overflow error frame was sent; otherwise
\* the buffer is what the extraction left and no overflow error was sent.
C23_ReceiveBufferBounded ==
    fw.on = "uart" =>
        /\ Bytes(fw.recv) <= RecvLimit
        /\ ~HasFrame(fw.rest)
        /\ IF Bytes(fw.rest) > RecvLimit
           THEN fw.recv = <<>> /\ Count(fw.out, OverflowError) = 1
           ELSE fw.recv = fw.rest /\ Count(fw.out, OverflowError) = 0

\* A callback took a command out of the buffer, answered it, and then cleared
\* what was left because it was longer than the limit.
C23_Witness ==
    /\ fw.on = "uart" /\ Bytes(fw.rest) > RecvLimit /\ fw.recv = <<>>
    /\ Len(fw.out) = 2 /\ fw.out[1].type = "status_response"


\* The ids of a sequence go up strictly: arrival order, none twice.
Ascending(q) == \A i \in 1..(Len(q) - 1) : q[i] < q[i + 1]

\* C24: msg_buffer never holds more than 50 messages; a message arriving at a
\* full buffer is kept at the end while the oldest one is dropped, and an arrival
\* at a buffer with room drops nothing; the messages written to the UART are in
\* arrival order with none written twice, and every buffered message arrived
\* after every message that has already left the buffer's head.
C24_SmsBufferBounded ==
    [][ fw'.on = "sms" =>
          /\ Len(fw'.msg_buffer) <= max_buffer_size
          /\ Ascending(fw'.sent \o fw'.msg_buffer)
          /\ fw'.arrived = fw.arrived + 1 =>
                /\ fw'.msg_buffer =
                      IF Len(fw.msg_buffer) = max_buffer_size
                      THEN Append(Tail(fw.msg_buffer), fw'.arrived)
                      ELSE Append(fw.msg_buffer, fw'.arrived)
                /\ fw'.sent = fw.sent
          /\ fw'.sent # fw.sent =>
                /\ fw'.sent = Append(fw.sent, Head(fw.msg_buffer))
                /\ fw'.msg_buffer = Tail(fw.msg_buffer) ]_vars

\* Message 1 was dropped at the full buffer when message 51 arrived, and message
\* 2 was the first one written to the UART.
C24_Witness ==
    /\ fw.on = "sms" /\ fw.arrived >= max_buffer_size + 1
    /\ fw.sent # <<>> /\ fw.sent[1] = 2 /\ fw.lost = {}


\* The send_sms commands the firmware has accepted so far, by number.
Accepted == 1..Len(fw.cmds)

\* C25 as claimed: every accepted send_sms command whose task is no longer
\* waiting has got exactly one sms_send_result frame, with its request_id.
C25_ExactlyOneResult ==
    fw.on = "cmd" =>
        \A n \in Accepted :
            n \notin fw.pending =>
                /\ Len(fw.results[n]) = 1
                /\ fw.results[n][1].request_id = fw.cmds[n].rid

\* C25 amended: an accepted send_sms command gets at most one sms_send_result
\* frame, none while its task still waits for the SMS, and the frame carries the
\* command's request_id, or the module's clock time if the command has none; a
\* command without a frame is still pending, or lost its task to a reboot, or
\* its frame could not be encoded.
C25_AtMostOneResult ==
    fw.on = "cmd" =>
        \A n \in Accepted :
            /\ Len(fw.results[n]) <= 1
            /\ n \in fw.pending => fw.results[n] = <<>>
            /\ \A i \in 1..Len(fw.results[n]) :
                  fw.results[n][i].request_id =
                      IF fw.cmds[n].rid = NoRid THEN OsTime ELSE fw.cmds[n].rid
            /\ n \in fw.gone => fw.results[n] = <<>>

\* Two sends with different ids were pending together and the second was
\* answered first; a third lost its task to a reboot.
C25_Witness ==
    /\ fw.on = "cmd" /\ Len(fw.cmds) = 3
    /\ fw.cmds[1].rid = 1 /\ fw.cmds[2].rid = 2
    /\ Len(fw.results[1]) = 1 /\ Len(fw.results[2]) = 1
    /\ fw.results[1][1].request_id = 1 /\ fw.results[2][1].request_id = 2
    /\ 3 \in fw.gone

\* C29: every frame type the firmware sends is a type the gateway's router has a
\* handler for.
C29_EmittedTypesRecognized ==
    fw.on = "cmd" => fw.last \in Recognized \cup {NoFrame}


\* A step in which sendJSONCommand performs s.port.Write: for a caller of SendSMS,
\* ResetStack or RebootMcu, for the refresh loop or for the initial poll.
SenderWrites ==
    \/ cl.pc = "write" /\ cl'.pc # "write"
    \/ \E h \in Conns : refresh[h] = "write" /\ refresh'[h] # "write"
    \/ \E h \in Conns : poll[h] = "write" /\ poll'[h] # "write"

\* C27: whenever sendJSONCommand gets to s.port.Write the handle is neither nil
\* nor closed, whatever the reader's cleanup does meanwhile.
C27_WritesOnlyToOpenHandle ==
    [][SenderWrites => (port # 0 /\ closes[port] = 0)]_vars

\* C28: connected is true exactly when a port handle is open, portName then names
\* the opened port, and a GetStatus that reports connected = true returns while
\* the handle is open.
C28_StateAgreesWithHandle ==
    [][ /\ connected' <=> (port' # 0 /\ closes'[port'] = 0)
        /\ connected' => portName' = selected'
        /\ (cl.pc = "cache" /\ cl'.pc = "idle" /\ GetStatus(cl).status.conn)
              => (port # 0 /\ closes[port] = 0) ]_vars


\* executeTask was called for the task at the latest check.
Executed(f) == f \in SendOutcomes

\* C26: at a daily check whose task list was read, an enabled task that last ran
\* (send succeeded, LastRunAt stored) at the check n = IntervalDays days before
\* is executed, and one that last ran fewer than n checks before is not.
C26_RunsEveryIntervalDays ==
    [][ (sched'.on = "sched" /\ sched'.day = sched.day + 1) =>
          \A t \in Tasks :
              (/\ sched.ranAt[t] # 0
               /\ sched.tasks[t].Enabled
               /\ sched'.fate[t] \notin {"unlisted", "unreached"}) =>
                   /\ sched'.day - sched.ranAt[t] = sched.tasks[t].IntervalDays
                         => Executed(sched'.fate[t])
                   /\ sched'.day - sched.ranAt[t] < sched.tasks[t].IntervalDays
                         => ~Executed(sched'.fate[t]) ]_vars

\* C30: at every daily check LastRunAt changes only for a task whose send
\* succeeded; a task whose send failed at the previous check, and a task that
\* never ran, is executed if enabled; a disabled task is not executed; and every
\* enabled task that is due is executed, whatever happened to the tasks before it.
C30_FailuresLeaveTasksDue ==
    [][ (sched'.on = "sched" /\ sched'.day = sched.day + 1) =>
          \A t \in Tasks :
              /\ sched'.tasks[t].LastRunAt # sched.tasks[t].LastRunAt
                    => sched'.fate[t] = "sent"
              /\ sched'.fate[t] = "failed"
                    => sched'.tasks[t].LastRunAt = sched.tasks[t].LastRunAt
              /\ ~sched.tasks[t].Enabled => ~Executed(sched'.fate[t])
              /\ (sched.tasks[t].Enabled /\ sched'.fate[t] # "unlisted") =>
                    /\ sched.fate[t] = "failed" => Executed(sched'.fate[t])
                    /\ sched.tasks[t].LastRunAt = 0 => Executed(sched'.fate[t])
                    /\ ShouldExecuteTask(sched.tasks[t], sched'.now)
                          => Executed(sched'.fate[t]) ]_vars

====
